---- MODULE Spec2Model ----
(***************************************************************************)
(* imgit asset pipeline of the documentation site: its phases, its cache   *)
(* store, its options and its YouTube plugin as state machines.  One step  *)
(* of the model is one run of JavaScript code between two suspension       *)
(* points (an await, a timer, a process callback).                         *)
(***************************************************************************)
EXTENDS Integers, Sequences, FiniteSets, TLC

\* ------------------------------------------------------------------ bounds
NumBatches == 2      \* overlapping download() / probe() calls
MaxCalls == 2        \* assets handed to download() in one run, over all calls
MaxPlugins == 2      \* resolvers, and builders, registered
Max429 == 2          \* 429 responses served in one run
MaxLen == 4          \* characters of a document

\* ----------------------------------------------------------- configuration
retries == 3
delay == 6
timeout == 30
local == "./public/assets"
serve == "/assets"
remote == "remote"
suffix == "-imgit"

\* ------------------------------------------------------- strings, Number()
\* A string is a sequence of one-character strings.  Null stands for the
\* JavaScript null / undefined; no string equals it.
Null == <<"null">>
NaN == -1            \* no modelled numeral is negative: -1 is free to stand for NaN
Digits == {"0", "1", "2", "3", "4", "5", "6", "7", "8", "9"}
Whitespace == {" ", "\n"}

DigitVal(c) ==
    CASE c = "0" -> 0 [] c = "1" -> 1 [] c = "2" -> 2 [] c = "3" -> 3
      [] c = "4" -> 4 [] c = "5" -> 5 [] c = "6" -> 6 [] c = "7" -> 7
      [] c = "8" -> 8 [] c = "9" -> 9

RECURSIVE TrimStart(_)
TrimStart(s) ==
    IF s # <<>> /\ Head(s) \in Whitespace THEN TrimStart(Tail(s)) ELSE s

RECURSIVE TrimEnd(_)
TrimEnd(s) ==
    IF s # <<>> /\ s[Len(s)] \in Whitespace
    THEN TrimEnd(SubSeq(s, 1, Len(s) - 1)) ELSE s

RECURSIVE DecVal(_)
DecVal(s) ==
    IF s = <<>> THEN 0
    ELSE 10 * DecVal(SubSeq(s, 1, Len(s) - 1)) + DigitVal(s[Len(s)])

\* Number(value) of ECMAScript on null and on strings made of decimal digits,
\* white space and letters: null and the blank string give 0, a digit string
\* its value, anything else NaN.
Number(s) ==
    IF s = Null THEN 0
    ELSE LET t == TrimEnd(TrimStart(s))
         IN  IF t = <<>> THEN 0
             ELSE IF \A i \in 1..Len(t) : t[i] \in Digits THEN DecVal(t)
             ELSE NaN

isNaN(n) == n = NaN

\* ------------------------------------------------------------------ assets
\* A URL is its sequence of segments: the first is the served prefix or the
\* origin, the last is the file name.
Urls ==
    [image |-> { <<"/assets", "a.png">>, <<"https://h1", "b.png">> },
     video |-> { <<"https://h2", "b.png">> },
     youtube |-> { <<"https://www.youtube.com", "watch?v=abc">> }]

\* A captured asset: the syntax it was captured from (alternative text, URL
\* and offset in the document), its type and its source URL.
Captured(type, url) ==
    [syntax |-> [alt |-> "alt", url |-> url, index |-> 7], type |-> type, sourceUrl |-> url]

Assets == UNION { { Captured(t, u) : u \in Urls[t] } : t \in DOMAIN Urls }

\* An object built from the new key and the fields a phase reads, in place
\* of the spread: the syntax is left behind.
SpreadWithoutSyntax(object, key, value) ==
    [k \in (DOMAIN object \ {"syntax"}) \cup {key} |-> IF k = key THEN value ELSE object[k]]

\* { ...object, key: value }
Spread(object, key, value) ==
    [k \in DOMAIN object \cup {key} |-> IF k = key THEN value ELSE object[k]]

EmptyPath == <<>>
basename(url) == url[Len(url)]
startsWithServe(url) == url[1] = serve

buildLocalRoot(asset) ==
    IF ~startsWithServe(asset.sourceUrl) THEN <<local, remote>>
    ELSE <<local>> \o SubSeq(asset.sourceUrl, 2, Len(asset.sourceUrl) - 1)

SourcePathOf(asset) == buildLocalRoot(asset) \o <<basename(asset.sourceUrl)>>

Paths == { SourcePathOf(a) : a \in { x \in Assets : x.type # "youtube" } }

Batches == 1..NumBatches
PromiseIds == Batches \X (1..MaxCalls)
NoPromise == <<0, 0>>

\* Retry-After header values a 429 response may carry.
RetryAfterValues ==
    { Null, <<>>, <<"5">>, <<"a">>, <<"5", "a">> }

Responses ==
    { [status |-> 200, retryAfter |-> Null] }
      \cup { [status |-> 429, retryAfter |-> h] : h \in RetryAfterValues }
NoResponse == [status |-> 0, retryAfter |-> Null]

VARIABLES
    files,        \* paths of the files on disk
    fetching,     \* Map<string, Promise<void>>: path -> promise id
    retrying,     \* Map<string, number>: path -> retry counter (0: no entry)
    promise,      \* state of each fetch promise
    pc,           \* where each download() call stands
    todo,         \* the number of assets it was called with
    downloaded,   \* its `downloaded` array
    cur,          \* asset and sourcePath of the downloadAsset call in progress
    timer,        \* seconds the abort timer of a call is set to (0: not armed)
    waitFor,      \* seconds of the wait in progress
    lastResp,     \* the response the call in progress received last
    joinSet,      \* the promises Promise.all(fetching.values()) took
    failures,     \* failed attempts per path
    n429          \* 429 responses served

dvars == << files, fetching, retrying, promise, pc, todo, downloaded, cur,
            timer, waitFor, lastResp, joinSet, failures, n429 >>

VARIABLES
    cacheSize,    \* cache.size: a function on the source paths it has
    probing,      \* Map<string, Promise<AssetSize>>: a function on its keys
    probePromise, \* state and value of each promise probeSize created
    ppc,          \* where each probe() call stands
    calls,        \* the probeAsset calls of each probe() call, in asset order
    invocations,  \* ffprobe processes started per path
    lastExec      \* the ffprobe callback that ran in the last step: promise, error, output

pvars == << cacheSize, probing, probePromise, ppc, calls, invocations, lastExec >>

VARIABLES
    encodeArgs,   \* config.encode: the ffmpeg arguments of each kind, or null
    encoded       \* each encode() call: whether it was made, and what it returned

evars == << encodeArgs, encoded >>

VARIABLES
    disk,           \* the file of the size category in the cache directory
    cacheIsPromise, \* cache.size is a Promise (cacheSize: its own properties)
    loaded,         \* load() has run in this process
    saved           \* what cache.size held when save() last wrote it

svars == << disk, cacheIsPromise, loaded, saved >>

VARIABLES
    youtubeCache, \* cache.youtube: a function on the video ids it has
    resolves,     \* the calls of the plugin's handlers: resolveYouTubeAsset, buildYouTubeHtml
    pluginPrefs   \* the preferences the plugin was registered with

yvars == << youtubeCache, resolves, pluginPrefs >>

VARIABLES
    plugins,      \* the registered handlers of each chain, in registration order
    chain         \* the run of each chain on its asset

cvars == << plugins, chain >>

VARIABLES
    rewriteArgs,  \* the document and the built assets rewrite() is given
    rewritten     \* what rewrite() returned, or null before it is called

wvars == << rewriteArgs, rewritten >>

VARIABLES
    captureArgs,  \* the document capture() is given
    captured      \* whether capture() has returned, and the assets it returned

avars == << captureArgs, captured >>

VARIABLES
    defaults,     \* the frozen defaults object
    options,      \* the options object: a function on its own properties
    settings      \* the settings configure() was last called with

ovars == << defaults, options, settings >>

vars == << dvars, pvars, evars, svars, yvars, cvars, wvars, avars, ovars >>

\* What the steps of a phase leave alone: the state of the other phases.
notDownload == << pvars, evars, svars, yvars, cvars, wvars, avars,
                  ovars >>
notProbe == << dvars, evars, svars, yvars, cvars, wvars, avars,
               ovars >>
notEncode == << dvars, pvars, svars, yvars, cvars, wvars, avars,
                ovars >>
notStore == << dvars, evars, yvars, cvars, wvars, avars, ovars, probing, probePromise, ppc,
               calls, invocations, lastExec >>
notYouTube == << dvars, pvars, evars, svars, cvars, wvars, avars,
                 ovars >>
notChain == << dvars, pvars, evars, svars, yvars, wvars, avars,
               ovars >>
notRewrite == << dvars, pvars, evars, svars, yvars, cvars, avars, ovars >>
notCapture == << dvars, pvars, evars, svars, yvars, cvars, wvars, ovars >>
notConfigure == << dvars, pvars, evars, svars, yvars, cvars, wvars, avars >>

NoCur == [asset |-> [type |-> "none", sourceUrl |-> <<>>], sourcePath |-> EmptyPath]

\* No download() call has been made yet.
DownloadIdle ==
    /\ fetching = [p \in Paths |-> NoPromise]
    /\ retrying = [p \in Paths |-> 0]
    /\ promise = [i \in PromiseIds |-> "none"]
    /\ pc = [b \in Batches |-> "idle"]
    /\ todo = [b \in Batches |-> 0]
    /\ downloaded = [b \in Batches |-> <<>>]
    /\ cur = [b \in Batches |-> NoCur]
    /\ timer = [b \in Batches |-> 0]
    /\ waitFor = [b \in Batches |-> 0]
    /\ lastResp = [b \in Batches |-> NoResponse]
    /\ joinSet = [b \in Batches |-> {}]
    /\ failures = [p \in Paths |-> 0]
    /\ n429 = 0


\* ---------------------------------------------------------------- download
\* Line 34 without its look into the registry of fetches in flight.
ReusesOnDiskOnly(sourcePath) == sourcePath \in files

\* Line 34 without its look at the disk.
ReusesInFlightOnly(sourcePath) == fetching[sourcePath] # NoPromise

\* Line 34: the destination is on disk, or a fetch of it is registered.
Reuses(sourcePath) ==
    sourcePath \in files \/ fetching[sourcePath] # NoPromise

\* The fetch promise of the downloadAsset call that download() call b makes
\* for its next asset, or has in progress.
CurId(b) == <<b, Len(downloaded[b]) + 1>>

\* The assets handed to the download() calls 1..n.
RECURSIVE TodoUpTo(_)
TodoUpTo(n) == IF n = 0 THEN 0 ELSE todo[n] + TodoUpTo(n - 1)

\* Line 17 left out: download() returns right after its loop.
RegisteredNone == {}

\* Line 17 taking only the fetches that have not settled yet.
RegisteredPending ==
    { i \in { fetching[p] : p \in Paths } \ {NoPromise} : promise[i] = "pending" }

\* Line 17: the promises Promise.all(fetching.values()) takes.
Registered == { fetching[p] : p \in Paths } \ {NoPromise}

\* download() call b after it has pushed its len-th asset, or was called: the
\* next iteration of the loop, or Promise.all after the last one.
Continue(b, len) ==
    IF len < todo'[b]
    THEN /\ pc' = [pc EXCEPT ![b] = "loop"]
         /\ UNCHANGED joinSet
    ELSE /\ pc' = [pc EXCEPT ![b] = "joining"]
         /\ joinSet' = [joinSet EXCEPT ![b] = Registered]

\* Lines 29 and 33: { ...asset, sourcePath }
Downloaded(asset, sourcePath) == Spread(asset, "sourcePath", sourcePath)

\* fetchWithTimeout: the timer is set, fetchAndWriteTo is called and returns
\* its promise as soon as fetch() is issued, and the finally block clears the
\* timer before the function returns: the timer is never left armed.
TimerAfterFetchWithTimeout == 0

\* fetchWithTimeout -> fetchAndWriteTo up to `await fetch(uri, { signal })`.
FetchWithTimeout(b, sourcePath) ==
    /\ timer' = [timer EXCEPT ![b] = TimerAfterFetchWithTimeout]
    /\ pc' = [pc EXCEPT ![b] = "fetching"]
    /\ waitFor' = [waitFor EXCEPT ![b] = 0]

\* The fetch promise of the call in progress rejects: `await downloadAsset`
\* throws inside download(), which rejects in turn.
Reject(b) ==
    /\ promise' = [promise EXCEPT ![CurId(b)] = "rejected"]
    /\ pc' = [pc EXCEPT ![b] = "failed"]

\* download() is called: the loop is entered.  The calls are numbered in the
\* order they are made.
Download(b) ==
    /\ pc[b] = "idle"
    /\ IF b = 1 THEN TRUE ELSE pc[b - 1] # "idle"
    /\ UNCHANGED notDownload
    /\ \E n \in 0..(MaxCalls - TodoUpTo(NumBatches)) :
           todo' = [todo EXCEPT ![b] = n]
    /\ Continue(b, 0)
    /\ UNCHANGED << files, fetching, retrying, promise, downloaded, cur,
                    timer, waitFor, lastResp, failures, n429 >>

\* One iteration of the loop of download(): downloadAsset(asset) up to its
\* first suspension.
DownloadAsset(b, asset) ==
    /\ pc[b] = "loop"
    /\ UNCHANGED << notDownload, todo >>
    /\ IF asset.type = "youtube"
       THEN /\ downloaded' = [downloaded EXCEPT ![b] = Append(@, Downloaded(asset, EmptyPath))]
            /\ Continue(b, Len(downloaded[b]) + 1)
            /\ UNCHANGED << files, fetching, retrying, promise, cur, timer,
                            waitFor, lastResp, failures, n429 >>
       ELSE LET sourcePath == SourcePathOf(asset)
            IN  IF Reuses(sourcePath)
                THEN /\ downloaded' = [downloaded EXCEPT ![b] = Append(@, Downloaded(asset, sourcePath))]
                     /\ Continue(b, Len(downloaded[b]) + 1)
                     /\ UNCHANGED << files, fetching, retrying, promise, cur,
                                     timer, waitFor, lastResp, failures, n429 >>
                ELSE /\ FetchWithTimeout(b, sourcePath)
                     /\ fetching' = [fetching EXCEPT ![sourcePath] = CurId(b)]
                     /\ promise' = [promise EXCEPT ![CurId(b)] = "pending"]
                     /\ cur' = [cur EXCEPT ![b] = [asset |-> asset, sourcePath |-> sourcePath]]
                     /\ lastResp' = [lastResp EXCEPT ![b] = NoResponse]
                     /\ UNCHANGED << files, retrying, downloaded, joinSet,
                                     failures, n429 >>

\* handleRetryResponse up to its wait: the seconds to wait, or NaN for the
\* throw of line 67.
RetryDelay(response) == Number(response.retryAfter)

\* Line 69 waiting the header's seconds and no more.
RetryWaitHeaderOnly(response) == RetryDelay(response)

\* Line 69: the seconds handleRetryResponse waits.
RetryWait(response) == RetryDelay(response) + 1

\* `await fetch` resumes with a response: a 429 goes to handleRetryResponse,
\* anything else to write(), which creates the destination file.
Respond(b, response) ==
    /\ pc[b] = "fetching"
    /\ UNCHANGED << notDownload, todo >>
    /\ response.status = 429 => n429 < Max429
    /\ lastResp' = [lastResp EXCEPT ![b] = response]
    /\ IF response.status = 429
       THEN /\ n429' = n429 + 1
            /\ IF isNaN(RetryDelay(response))
               THEN /\ Reject(b)
                    /\ UNCHANGED waitFor
               ELSE /\ pc' = [pc EXCEPT ![b] = "waiting"]
                    /\ waitFor' = [waitFor EXCEPT ![b] = RetryWait(response)]
                    /\ UNCHANGED promise
            /\ UNCHANGED files
       ELSE /\ files' = files \cup {cur[b].sourcePath}
            /\ pc' = [pc EXCEPT ![b] = "writing"]
            /\ UNCHANGED << promise, waitFor, n429 >>
    /\ UNCHANGED << fetching, retrying, downloaded, cur, timer, joinSet, failures >>

\* What the catch clause of fetchWithRetries (line 41) sees.  The try block
\* returns the promise of fetchWithTimeout without awaiting it, so the clause
\* sees only what fetchWithTimeout throws before it returns, never a
\* rejection of the promise.
Caught(kind) == kind = "thrown"

\* One counter for all paths, and every failure counted.
RetryingAfterShared(filepath, kind) == [p \in Paths |-> retrying[p] + 1]

\* Lines 41-42: the retry counters after an attempt on filepath has failed
\* in the way `kind`.
RetryingAfter(filepath, kind) ==
    IF Caught(kind) THEN [retrying EXCEPT ![filepath] = @ + 1] ELSE retrying

\* How an attempt in flight can fail: the network or the write stream fails,
\* or the abort timer, if armed, fires.
FailureCauses(b) == {"network"} \cup (IF timer[b] > 0 THEN {"abort"} ELSE {})

\* An attempt fails: fetch() or the write rejects.  Lines 41-50.
Fail(b, cause) ==
    /\ pc[b] \in {"fetching", "writing"}
    /\ UNCHANGED << notDownload, todo >>
    /\ cause \in FailureCauses(b)
    /\ failures' = [failures EXCEPT ![cur[b].sourcePath] = @ + 1]
    /\ retrying' = RetryingAfter(cur[b].sourcePath, "rejected")
    /\ IF Caught("rejected")
       THEN LET filepath == cur[b].sourcePath
                count == retrying[filepath] + 1
            IN  /\ IF count > retries
                   THEN /\ files' = files \ {filepath}
                        /\ Reject(b)
                        /\ UNCHANGED << waitFor >>
                   ELSE /\ \E d \in 0..(delay - 1) :
                               waitFor' = [waitFor EXCEPT ![b] = d]
                        /\ pc' = [pc EXCEPT ![b] = "waiting"]
                        /\ UNCHANGED << files, promise >>
       ELSE /\ Reject(b)
            /\ UNCHANGED << files, waitFor >>
    /\ UNCHANGED << fetching, downloaded, cur, timer, lastResp, joinSet, n429 >>

\* A wait ends: the request is issued again (line 49, line 70).
WaitDone(b) ==
    /\ pc[b] = "waiting"
    /\ UNCHANGED << notDownload, todo >>
    /\ FetchWithTimeout(b, cur[b].sourcePath)
    /\ lastResp' = [lastResp EXCEPT ![b] = NoResponse]
    /\ UNCHANGED << files, fetching, retrying, promise, downloaded, cur,
                    joinSet, failures, n429 >>

\* The write stream finishes: the fetch promise is fulfilled, downloadAsset
\* returns the downloaded asset and download() pushes it.
WriteDone(b) ==
    /\ pc[b] = "writing"
    /\ UNCHANGED << notDownload, todo >>
    /\ promise' = [promise EXCEPT ![CurId(b)] = "fulfilled"]
    /\ downloaded' = [downloaded EXCEPT ![b] = Append(@, Downloaded(cur[b].asset, cur[b].sourcePath))]
    /\ Continue(b, Len(downloaded[b]) + 1)
    /\ cur' = [cur EXCEPT ![b] = NoCur]
    /\ lastResp' = [lastResp EXCEPT ![b] = NoResponse]
    /\ UNCHANGED << files, fetching, retrying, timer, waitFor, failures, n429 >>

\* Promise.all settles: rejected with the first rejection, fulfilled when
\* every promise is.
AllSettled(b) ==
    /\ pc[b] = "joining"
    /\ UNCHANGED << notDownload, todo >>
    /\ \/ \E i \in joinSet[b] : promise[i] = "rejected"
       \/ \A i \in joinSet[b] : promise[i] = "fulfilled"
    /\ pc' = [pc EXCEPT ![b] =
                IF \E i \in joinSet[b] : promise[i] = "rejected"
                THEN "failed" ELSE "done"]
    /\ UNCHANGED << files, fetching, retrying, promise, downloaded, cur,
                    timer, waitFor, lastResp, joinSet, failures, n429 >>

DownloadNext ==
    \E b \in Batches :
        \/ Download(b)
        \/ \E asset \in Assets : DownloadAsset(b, asset)
        \/ \E response \in Responses : Respond(b, response)
        \/ \E cause \in {"network", "abort"} : Fail(b, cause)
        \/ WaitDone(b)
        \/ WriteDone(b)
        \/ AllSettled(b)

\* ------------------------------------------------------------------- probe
ZeroSize == [width |-> 0, height |-> 0]
NaNSize == [width |-> NaN, height |-> NaN]

\* What ffprobe may print.
ToolOutputs ==
    { <<>>, <<"1", "2">>, <<"x">>, <<"1", "x", "a">>, <<"1", "x", "2", "x", "3">>,
      <<"1", "2", "x", "3", "\n">> }

includes(s, c) == \E i \in 1..Len(s) : s[i] = c

\* The index of the first c in s, which holds one.
RECURSIVE IndexOf(_, _)
IndexOf(s, c) == IF Head(s) = c THEN 1 ELSE 1 + IndexOf(Tail(s), c)

\* String.prototype.split on a one-character separator.
RECURSIVE split(_, _)
split(s, c) ==
    IF ~includes(s, c) THEN <<s>>
    ELSE LET i == IndexOf(s, c)
         IN  <<SubSeq(s, 1, i - 1)>> \o split(SubSeq(s, i + 1, Len(s)), c)

parseOut(out) ==
    IF out = Null \/ ~includes(out, "x") THEN NaNSize
    ELSE LET parts == split(out, "x")
         IN  [width |-> Number(parts[1]), height |-> Number(parts[2])]

\* The downloaded assets probe() may be given.
ProbeAssets ==
    { Downloaded(a, IF a.type = "youtube" THEN EmptyPath ELSE SourcePathOf(a)) :
        a \in Assets }

SeqsUpTo(S, n) == UNION { [1..k -> S] : k \in 0..n }

ProbeIds == Batches \X (1..MaxCalls)
NoExec == [id |-> NoPromise, error |-> FALSE, out |-> Null]


\* Sizes the cache may hold when a probe() call is made.
CachedSizes == { [width |-> 3, height |-> 4] }

\* No probe() call has been made yet.
ProbeIdle ==
    /\ probing = << >>
    /\ probePromise = [i \in ProbeIds |-> [state |-> "none", size |-> ZeroSize]]
    /\ ppc = [b \in Batches |-> "idle"]
    /\ calls = [b \in Batches |-> <<>>]
    /\ invocations = [p \in Paths |-> 0]
    /\ lastExec = NoExec

\* Line 16 never finding the entry.
CacheHasNever(sourcePath) == FALSE

\* cache.size.hasOwnProperty(sourcePath)
CacheHas(sourcePath) == sourcePath \in DOMAIN cacheSize

\* Line 17 never finding the promise in flight.
ProbingHasNever(registry, sourcePath) == FALSE

\* probing.has(sourcePath), on the registry as the calls before left it
ProbingHas(registry, sourcePath) == sourcePath \in DOMAIN registry

Put(f, k, v) == [x \in DOMAIN f \cup {k} |-> IF x = k THEN v ELSE f[x]]

Call(asset, state, on, owner, size) ==
    [asset |-> asset, state |-> state, on |-> on, owner |-> owner, size |-> size]

\* probeAsset without line 15: an External-Link asset is looked up and probed
\* as any other.
ProbeAssetCallNoShortCircuit(st, b, i, asset) ==
    IF CacheHas(asset.sourcePath)
    THEN [st EXCEPT !.calls = Append(@, Call(asset, "done", NoPromise, FALSE,
                                             cacheSize[asset.sourcePath]))]
    ELSE IF ProbingHas(st.probing, asset.sourcePath)
    THEN [st EXCEPT !.calls = Append(@, Call(asset, "awaiting",
                                             st.probing[asset.sourcePath], FALSE, ZeroSize))]
    ELSE [probing |-> Put(st.probing, asset.sourcePath, <<b, i>>),
          promise |-> [st.promise EXCEPT ![<<b, i>>] = [state |-> "pending", size |-> ZeroSize]],
          invocations |-> IF asset.sourcePath \in DOMAIN st.invocations
                          THEN [st.invocations EXCEPT ![asset.sourcePath] = @ + 1]
                          ELSE st.invocations,
          calls |-> Append(st.calls, Call(asset, "awaiting", <<b, i>>, TRUE, ZeroSize))]

\* probeAsset(asset) up to its first suspension, as the i-th call of probe()
\* call b; st holds probing, probePromise, invocations and the calls so far.
ProbeAssetCall(st, b, i, asset) ==
    IF asset.type = "youtube"
    THEN [st EXCEPT !.calls = Append(@, Call(asset, "done", NoPromise, FALSE, ZeroSize))]
    ELSE IF CacheHas(asset.sourcePath)
    THEN [st EXCEPT !.calls = Append(@, Call(asset, "done", NoPromise, FALSE,
                                             cacheSize[asset.sourcePath]))]
    ELSE IF ProbingHas(st.probing, asset.sourcePath)
    THEN [st EXCEPT !.calls = Append(@, Call(asset, "awaiting",
                                             st.probing[asset.sourcePath], FALSE, ZeroSize))]
    ELSE \* probeSize: the promise is registered, then ffprobe is started
         [probing |-> Put(st.probing, asset.sourcePath, <<b, i>>),
          promise |-> [st.promise EXCEPT ![<<b, i>>] = [state |-> "pending", size |-> ZeroSize]],
          invocations |-> [st.invocations EXCEPT ![asset.sourcePath] = @ + 1],
          calls |-> Append(st.calls, Call(asset, "awaiting", <<b, i>>, TRUE, ZeroSize))]

\* assets.map(probeAsset): the calls are made one after the other, each
\* running to its first await.
RECURSIVE MapProbeAsset(_, _, _, _)
MapProbeAsset(st, b, i, assets) ==
    IF i > Len(assets) THEN st
    ELSE MapProbeAsset(ProbeAssetCall(st, b, i, assets[i]), b, i + 1, assets)

RECURSIVE ProbedUpTo(_)
ProbedUpTo(n) == IF n = 0 THEN 0 ELSE Len(calls[n]) + ProbedUpTo(n - 1)

\* probe(assets), as probe() call b: the probeAsset calls run to their first
\* await.
ProbeCall(b, assets) ==
    /\ ppc[b] = "idle"
    /\ UNCHANGED notProbe
    /\ LET st == MapProbeAsset([probing |-> probing, promise |-> probePromise,
                                invocations |-> invocations, calls |-> <<>>],
                               b, 1, assets)
       IN  /\ probing' = st.probing
           /\ probePromise' = st.promise
           /\ invocations' = st.invocations
           /\ calls' = [calls EXCEPT ![b] = st.calls]
    /\ ppc' = [ppc EXCEPT ![b] = "running"]
    /\ lastExec' = NoExec
    /\ UNCHANGED cacheSize

\* probe(assets) is called.  The calls are numbered in the order they are
\* made.
Probe(b, assets) ==
    /\ IF b = 1 THEN TRUE ELSE ppc[b - 1] # "idle"
    /\ ProbeCall(b, assets)

\* Line 19: { ...asset, size }
Probed(asset, size) == Spread(asset, "size", size)

\* The probed assets last to first.
ProbeResultReversed(b) ==
    [i \in 1..Len(calls[b]) |->
        Probed(calls[b][Len(calls[b]) + 1 - i].asset, calls[b][Len(calls[b]) + 1 - i].size)]

\* What probe() call b returns: the probed assets, in the order of its input.
ProbeResult(b) ==
    [i \in 1..Len(calls[b]) |-> Probed(calls[b][i].asset, calls[b][i].size)]

\* The callback of exec runs: handleProbe resolves the promise with the
\* parsed output, whether or not the tool failed.
HandleProbe(id, error, out) ==
    /\ probePromise[id].state = "pending"
    /\ UNCHANGED notProbe
    /\ probePromise' = [probePromise EXCEPT ![id] = [state |-> "resolved", size |-> parseOut(out)]]
    /\ lastExec' = [id |-> id, error |-> error, out |-> out]
    /\ UNCHANGED << cacheSize, probing, ppc, calls, invocations >>

\* A probeAsset call resumes from its await: the call that started the tool
\* stores the size in the cache (line 18).
Resume(b, i) ==
    /\ i \in 1..Len(calls[b])
    /\ UNCHANGED notProbe
    /\ calls[b][i].state = "awaiting"
    /\ probePromise[calls[b][i].on].state = "resolved"
    /\ LET size == probePromise[calls[b][i].on].size
       IN  /\ calls' = [calls EXCEPT ![b][i].state = "done", ![b][i].size = size]
           /\ cacheSize' = IF calls[b][i].owner
                           THEN Put(cacheSize, calls[b][i].asset.sourcePath, size)
                           ELSE cacheSize
    /\ lastExec' = NoExec
    /\ UNCHANGED << probing, probePromise, ppc, invocations >>

\* Promise.all of probe() is fulfilled: every call has returned.
ProbeReturn(b) ==
    /\ ppc[b] = "running"
    /\ UNCHANGED notProbe
    /\ \A i \in 1..Len(calls[b]) : calls[b][i].state = "done"
    /\ ppc' = [ppc EXCEPT ![b] = "returned"]
    /\ lastExec' = NoExec
    /\ UNCHANGED << cacheSize, probing, probePromise, calls, invocations >>

ProbeNext ==
    \E b \in Batches :
        \/ \E assets \in SeqsUpTo(ProbeAssets, MaxCalls - ProbedUpTo(NumBatches)) :
               Probe(b, assets)
        \/ \E i \in 1..Len(calls[b]), error \in BOOLEAN, out \in ToolOutputs :
               HandleProbe(<<b, i>>, error, out)
        \/ \E i \in 1..Len(calls[b]) : Resume(b, i)
        \/ ProbeReturn(b)

\* ------------------------------------------------------------------ encode
\* defaults.encode: the ffmpeg arguments of each kind of asset that is encoded.
EncodeKinds == {"image", "animation", "video"}
DefaultEncodeArgs ==
    [image |-> <<"-loglevel", "error", "-c:v", "librav1e", "-rav1e-params",
                 "speed=4:quantizer=100:still_picture=true">>,
     animation |-> <<"-loglevel", "error", "-c:v", "librav1e", "-rav1e-params",
                     "speed=6:quantizer=150">>,
     video |-> <<"-loglevel", "error", "-c:v", "libsvtav1", "-preset", "4">>]

\* EncodeOptions: each kind has its arguments, or null to disable it.
EncodeOptions ==
    { [k \in EncodeKinds |-> IF k \in disabled THEN Null ELSE DefaultEncodeArgs[k]] :
        disabled \in SUBSET EncodeKinds }

\* The probed assets encode() may be given: the assets of Probe with a
\* measured size (the External-Link one with its zero size), and an animation.
EncodeAssets ==
    { Probed(a, IF a.type = "youtube" THEN ZeroSize ELSE [width |-> 3, height |-> 4]) :
        a \in ProbeAssets }
      \cup { Probed(Downloaded(Captured("animation", <<"/assets", "c.gif">>),
                               <<local, "c.gif">>),
                    [width |-> 3, height |-> 4]) }

\* No encode() call has been made yet.
EncodeIdle ==
    encoded = [b \in Batches |-> [state |-> "idle", given |-> <<>>, assets |-> <<>>]]

\* encode encoding every asset with a file, whatever config.encode says.
encodeIgnoringOptions(assets) ==
    [i \in 1..Len(assets) |-> Spread(assets[i], "encodedPath", assets[i].sourcePath)]

\* encode(path, assets): assets.map(a => ({ ...a, encodedPath: "" }))
encode(assets) ==
    [i \in 1..Len(assets) |-> Spread(assets[i], "encodedPath", EmptyPath)]

\* encode(path, assets), as encode() call b.
EncodeCall(b, assets) ==
    /\ encoded[b].state = "idle"
    /\ UNCHANGED notEncode
    /\ encoded' = [encoded EXCEPT ![b] = [state |-> "done", given |-> assets,
                                          assets |-> encode(assets)]]
    /\ UNCHANGED encodeArgs

RECURSIVE EncodedUpTo(_)
EncodedUpTo(n) == IF n = 0 THEN 0 ELSE Len(encoded[n].assets) + EncodedUpTo(n - 1)

\* encode(path, assets) is called.  The calls are numbered in the order they
\* are made.
Encode(b, assets) ==
    /\ IF b = 1 THEN TRUE ELSE encoded[b - 1].state # "idle"
    /\ EncodeCall(b, assets)

EncodeNext ==
    \E b \in Batches :
        \E assets \in SeqsUpTo(EncodeAssets, MaxCalls - EncodedUpTo(NumBatches)) :
            Encode(b, assets)

\* ------------------------------------------------------------- cache store
\* JSON has no NaN: JSON.stringify writes null for it.
JsonNull == -2
JsonNumber(n) == IF isNaN(n) THEN JsonNull ELSE n

\* JSON.stringify(object) of a category: the own enumerable properties of
\* the object, each size with its numbers as JSON has them.
stringify(object) ==
    [k \in DOMAIN object |-> [width |-> JsonNumber(object[k].width),
                              height |-> JsonNumber(object[k].height)]]

NoFile == [exists |-> FALSE, json |-> << >>]

\* The process has started: cache is `{ size: {} }`, nothing is loaded.
StoreIdle ==
    /\ cacheIsPromise = FALSE
    /\ loaded = FALSE

\* What load() leaves in cache.size from an existing file (line 14):
\* `read(filepath)` itself, the Promise of an async function, which has no
\* own property.
Loaded(file) == [isPromise |-> TRUE, own |-> << >>]

\* load(): the category is replaced when its file exists.
Load ==
    /\ ~loaded
    /\ UNCHANGED notStore
    /\ loaded' = TRUE
    /\ IF disk.exists
       THEN /\ cacheIsPromise' = Loaded(disk).isPromise
            /\ cacheSize' = Loaded(disk).own
       ELSE UNCHANGED << cacheIsPromise, cacheSize >>
    /\ UNCHANGED << disk, saved >>

\* Sizes probeAsset may store.
StoredSizes == CachedSizes \cup { parseOut(out) : out \in ToolOutputs }

\* probeAsset, line 18: cache.size[sourcePath] = size
Store(sourcePath, size) ==
    /\ loaded
    /\ UNCHANGED notStore
    /\ cacheSize' = Put(cacheSize, sourcePath, size)
    /\ UNCHANGED << disk, cacheIsPromise, loaded, saved >>

\* save(): the category is written to its file.
Save ==
    /\ loaded
    /\ UNCHANGED notStore
    /\ disk' = [exists |-> TRUE, json |-> stringify(cacheSize)]
    /\ saved' = cacheSize
    /\ UNCHANGED << cacheSize, cacheIsPromise, loaded >>

\* The build ends and a later one starts: the module is evaluated anew, the
\* files stay.
Restart ==
    /\ loaded
    /\ disk.exists
    /\ UNCHANGED notStore
    /\ cacheSize' = << >>
    /\ cacheIsPromise' = FALSE
    /\ loaded' = FALSE
    /\ UNCHANGED << disk, saved >>

StoreNext ==
    \/ Load
    \/ \E sourcePath \in Paths, size \in StoredSizes : Store(sourcePath, size)
    \/ Save
    \/ Restart

\* ---------------------------------------------------------- YouTube plugin
thumbs == <<"maxresdefault", "mqdefault", "0">>

\* The watch links of the model and their video ids.
WatchUrls ==
    { <<"https://www.youtube.com", "watch?v=abc">>,
      <<"https://www.youtube.com", "watch?v=xyz">>,
      <<"https://www.youtube.com", "watch?v=xyz&f=.mp4">> }

\* A handler that takes every asset for a watch link.
isYouTubeAlways(url) == TRUE

\* url.includes("youtube.com/watch?v=")
isYouTube(url) == url \in WatchUrls

\* new URL(url).searchParams.get("v")
getYouTubeId(url) == IF url[2] = "watch?v=abc" THEN "abc" ELSE "xyz"

\* A string in the pieces it is put together from.
buildThumbnailUrl(id, variant) ==
    <<"https://i.ytimg.com/vi_webp/", id, "/", variant, ".webp">>

\* The assets resolveYouTubeAsset may be given: those of the pipeline, and a
\* second watch link.
ResolvedAssets ==
    Assets \cup { Captured("youtube", <<"https://www.youtube.com", "watch?v=xyz">>) }

\* The URL of a response: the requested one, or the one a redirect led to.
ResponseUrls(requested) == { requested, <<"https://i.ytimg.com/moved/">> \o requested }

NoThumbnail == [ok |-> FALSE, url |-> <<>>]

\* A call of a handler of the plugin that has not been made: the asset it is
\* given has no content (src) and no html yet.
NoResolve ==
    [state |-> "idle", url |-> <<>>, tried |-> <<>>, response |-> NoThumbnail,
     src |-> Null, warned |-> FALSE, handled |-> FALSE, html |-> Null]

\* The preferences a site may register the plugin with: whether the title
\* and the banner are shown (`!== false`, so undefined shows them).
Prefs == [title : BOOLEAN, banner : BOOLEAN]
NoPrefs == [title |-> TRUE, banner |-> TRUE]

\* No resolver call has been made yet.
YouTubeIdle ==
    /\ youtubeCache = << >>
    /\ resolves = [r \in Batches |-> NoResolve]

\* The loop of line 82 requesting every variant, successful response or not.
GoesOnAlways(response, tried) == Len(tried) < Len(thumbs)

\* Lines 82-83: the loop requests the next variant when the response is not
\* successful and a variant is left.
GoesOn(response, tried) == ~response.ok /\ Len(tried) < Len(thumbs)

\* resolveYouTubeAsset(asset) up to its first await, as call r.
ResolveYouTubeAsset(r, asset) ==
    /\ resolves[r].state = "idle"
    /\ IF r = 1 THEN TRUE ELSE resolves[r - 1].state # "idle"
    /\ UNCHANGED notYouTube
    /\ LET url == asset.syntax.url
           id == getYouTubeId(url)
       IN  resolves' = [resolves EXCEPT ![r] =
               IF ~isYouTube(url)
               THEN [NoResolve EXCEPT !.state = "done", !.url = url]
               ELSE IF id \in DOMAIN youtubeCache
               THEN [NoResolve EXCEPT !.state = "done", !.url = url,
                                      !.src = youtubeCache[id], !.handled = TRUE]
               ELSE [NoResolve EXCEPT !.state = "fetching", !.url = url,
                                      !.tried = <<thumbs[1]>>]]
    /\ UNCHANGED << youtubeCache, pluginPrefs >>

\* The URL of the last response stored whether it was successful or not.
CachedAlways(id, response) == Put(youtubeCache, id, response.url)

\* Lines 84-85: cache.youtube after the loop, with the URL of a successful
\* response stored under the id.
Cached(id, response) ==
    IF response.ok THEN Put(youtubeCache, id, response.url) ELSE youtubeCache

\* `await std.fetch` resumes with a response: the loop goes on with the next
\* variant, or resolveThumbnailUrl returns the URL of the response, with a
\* warning or an entry in the cache, and the resolver reports handled.
ThumbnailResponds(r, ok, url) ==
    /\ resolves[r].state = "fetching"
    /\ UNCHANGED notYouTube
    /\ LET call == resolves[r]
           id == getYouTubeId(call.url)
           response == [ok |-> ok, url |-> url]
       IN  /\ url \in ResponseUrls(buildThumbnailUrl(id, call.tried[Len(call.tried)]))
           /\ UNCHANGED pluginPrefs
           /\ IF GoesOn(response, call.tried)
              THEN /\ resolves' = [resolves EXCEPT ![r] =
                          [call EXCEPT !.response = response,
                                       !.tried = Append(@, thumbs[Len(@) + 1])]]
                   /\ UNCHANGED youtubeCache
              ELSE /\ resolves' = [resolves EXCEPT ![r] =
                          [call EXCEPT !.state = "done", !.response = response,
                                       !.warned = ~response.ok, !.src = response.url,
                                       !.handled = TRUE]]
                   /\ youtubeCache' = Cached(id, response)

\* `await std.fetch` throws: resolveThumbnailUrl and the resolver reject.
ThumbnailFetchFails(r) ==
    /\ resolves[r].state = "fetching"
    /\ UNCHANGED notYouTube
    /\ resolves' = [resolves EXCEPT ![r].state = "failed"]
    /\ UNCHANGED << youtubeCache, pluginPrefs >>

\* The markup of lines 48-57, in the pieces it is put together from.
YouTubeHtml(id, poster) ==
    <<"imgit-youtube">>
        \o (IF pluginPrefs.title THEN <<"imgit-youtube-title">> ELSE <<>>)
        \o (IF pluginPrefs.banner THEN <<"imgit-youtube-banner">> ELSE <<>>)
        \o <<"imgit-youtube-poster", poster, "https://www.youtube-nocookie.com/embed/", id>>

\* What the default build makes of the copy of the asset buildPosterHtml
\* hands it.
Posters == {"<picture>", "<img>"}

\* buildYouTubeHtml(asset) up to its first await, as call r: false for an
\* asset that is no watch link (line 41), else buildPosterHtml is awaited.
BuildYouTubeHtml(r, asset) ==
    /\ resolves[r].state = "idle"
    /\ IF r = 1 THEN TRUE ELSE resolves[r - 1].state # "idle"
    /\ UNCHANGED notYouTube
    /\ LET url == asset.syntax.url
       IN  resolves' = [resolves EXCEPT ![r] =
               IF ~isYouTube(url)
               THEN [NoResolve EXCEPT !.state = "built", !.url = url]
               ELSE [NoResolve EXCEPT !.state = "poster", !.url = url]]
    /\ UNCHANGED << youtubeCache, pluginPrefs >>

\* `await buildPosterHtml` resumes: asset.html is assigned and the builder
\* reports handled (lines 48-58).
PosterBuilt(r, poster) ==
    /\ resolves[r].state = "poster"
    /\ UNCHANGED notYouTube
    /\ resolves' = [resolves EXCEPT ![r] =
           [@ EXCEPT !.state = "built", !.handled = TRUE,
                     !.html = YouTubeHtml(getYouTubeId(resolves[r].url), poster)]]
    /\ UNCHANGED << youtubeCache, pluginPrefs >>

YouTubeNext ==
    \E r \in Batches :
        \/ \E asset \in ResolvedAssets : ResolveYouTubeAsset(r, asset)
        \/ \E ok \in BOOLEAN, id \in {"abc", "xyz"}, variant \in { thumbs[i] : i \in DOMAIN thumbs } :
               \E url \in ResponseUrls(buildThumbnailUrl(id, variant)) :
                   ThumbnailResponds(r, ok, url)
        \/ ThumbnailFetchFails(r)
        \/ \E asset \in ResolvedAssets : BuildYouTubeHtml(r, asset)
        \/ \E poster \in Posters : PosterBuilt(r, poster)

\* ------------------------------------------------- resolver, builder chain
\* The chains of the extension point, and the handlers a plugin may register
\* in them: those of the YouTube plugin, and those of some other plugin.
ChainKinds == {"resolvers", "builders"}
Handlers == {"youtube", "other"}

\* What a handler may report for an asset: resolveYouTubeAsset (lines 34,
\* 37) and buildYouTubeHtml (lines 41, 58) report whether the URL is a watch
\* link, another plugin's handler whatever it decides.
Reports(handler, asset) ==
    IF handler = "youtube" THEN {isYouTube(asset.syntax.url)} ELSE BOOLEAN

NoChain ==
    [state |-> "idle", url |-> <<>>, called |-> <<>>, handled |-> FALSE,
     default |-> FALSE]

\* No chain has been run yet.
ChainIdle == chain = [kind \in ChainKinds |-> NoChain]

\* A chain that goes on to the next handler whatever the last one reported.
ChainStopsNever(handled) == FALSE

\* First match wins: the chain stops at the handler that reports handled.
ChainStops(handled) == handled

\* The chain of the kind is started for an asset.
ChainStart(kind, asset) ==
    /\ chain[kind].state = "idle"
    /\ UNCHANGED notChain
    /\ chain' = [chain EXCEPT ![kind] = [NoChain EXCEPT !.state = "running",
                                                       !.url = asset.syntax.url]]
    /\ UNCHANGED plugins

\* The next handler of the chain is called and reports.
ChainCall(kind, asset, handled) ==
    /\ chain[kind].state = "running"
    /\ asset.syntax.url = chain[kind].url
    /\ Len(chain[kind].called) < Len(plugins[kind])
    /\ UNCHANGED notChain
    /\ LET index == Len(chain[kind].called) + 1
       IN  /\ handled \in Reports(plugins[kind][index], asset)
           /\ chain' = [chain EXCEPT
                  ![kind].called = Append(@, [index |-> index, handled |-> handled]),
                  ![kind].handled = handled,
                  ![kind].state = IF ChainStops(handled) THEN "done" ELSE "running"]
    /\ UNCHANGED plugins

\* No handler is left and none reported handled: the default of the asset's
\* type runs.
ChainDefault(kind) ==
    /\ chain[kind].state = "running"
    /\ Len(chain[kind].called) = Len(plugins[kind])
    /\ UNCHANGED notChain
    /\ chain' = [chain EXCEPT ![kind].default = ~chain[kind].handled,
                              ![kind].state = "done"]
    /\ UNCHANGED plugins

ChainNext ==
    \E kind \in ChainKinds :
        \/ \E asset \in ResolvedAssets : ChainStart(kind, asset)
        \/ \E asset \in ResolvedAssets, handled \in BOOLEAN : ChainCall(kind, asset, handled)
        \/ ChainDefault(kind)

\* --------------------------------------------------------------- configure
\* A JavaScript value: undefined, null, a string, or an object with its own
\* properties.
Undefined == [type |-> "undefined", prim |-> "", props |-> << >>]
NullValue == [type |-> "null", prim |-> "", props |-> << >>]
Str(string) == [type |-> "string", prim |-> string, props |-> << >>]
Obj(props) == [type |-> "object", prim |-> "", props |-> props]

\* The defaults object, of the options the model follows: a string, one
\* that is undefined by default, and two groups.
Defaults ==
    [suffix |-> Str(suffix),
     poster |-> Undefined,
     log |-> Obj([info |-> "console.info", warn |-> "console.warn", err |-> "console.error"]),
     fetch |-> Obj([timeout |-> timeout, retries |-> retries, delay |-> delay])]

\* What a site may give for each key; `other` is no option.
Given ==
    [suffix |-> { Str("-opt") },
     poster |-> { Undefined, NullValue },
     log |-> { NullValue },
     fetch |-> { Undefined, Obj([retries |-> 5]) },
     other |-> { Str("x") }]

Settings ==
    UNION { { f \in [K -> UNION { Given[k] : k \in K }] : \A k \in K : f[k] \in Given[k] } :
              K \in SUBSET DOMAIN Given }

\* Line 166 taking null for no value, as it takes undefined.
OverridesUnlessNull(object, prop, value) ==
    prop \in DOMAIN object /\ value \notin {Undefined, NullValue}

\* Line 166: options.hasOwnProperty(prop) && settings[prop] !== undefined
Overrides(object, prop, value) ==
    prop \in DOMAIN object /\ value # Undefined

\* Lines 165-167: the options object after the loop over the properties of
\* the settings.
configure(object, given) ==
    [prop \in DOMAIN object |->
        IF prop \in DOMAIN given /\ Overrides(object, prop, given[prop])
        THEN given[prop] ELSE object[prop]]

\* Line 162 and nothing else: `options` is a copy of the defaults.
ConfigureIdle ==
    /\ defaults = Defaults
    /\ options = defaults
    /\ settings = << >>

\* configure(settings) is called and returns.
Configure(given) ==
    /\ UNCHANGED notConfigure
    /\ settings' = given
    /\ options' = configure(options, given)
    /\ UNCHANGED defaults

ConfigureNext == \E given \in Settings : Configure(given)

\* ----------------------------------------------------------------- capture
\* The extension lists of the configuration.
image == {"png", "jpg", "jpeg"}
animation == {"gif"}
video == {"mp4"}

AssetTypes == {"image", "animation", "video", "youtube"}

\* The URIs a document may reference: one of each kind, one with an
\* extension no list has, one without extension, and two watch links, one of
\* which ends like a video file.
CaptureUris ==
    { <<"/assets", "a.png">>, <<"https://h1", "c.gif">>, <<"https://h2", "d.mp4">>,
      <<"https://h1", "e.webp">>, <<"https://h1", "f">>,
      <<"https://www.youtube.com", "watch?v=abc">>,
      <<"https://www.youtube.com", "watch?v=xyz&f=.mp4">> }

\* The file extension of a URI, without the dot.
extname(uri) ==
    CASE basename(uri) = "a.png" -> "png"
      [] basename(uri) = "c.gif" -> "gif"
      [] basename(uri) \in {"d.mp4", "watch?v=xyz&f=.mp4"} -> "mp4"
      [] basename(uri) = "e.webp" -> "webp"
      [] OTHER -> ""

\* A document as capture() sees it: a sequence of pieces, each a stretch of
\* text the pattern does not match or a match with its title and URI.  The
\* offset of a piece is the number of pieces before it.
TextPiece == [match |-> FALSE, title |-> "", uri |-> <<>>]
MatchPieces == { [match |-> TRUE, title |-> "alt", uri |-> uri] : uri \in CaptureUris }
CaptureDocuments == SeqsUpTo({TextPiece} \cup MatchPieces, MaxLen)

\* capture() has not been called yet.
CaptureIdle == captured = [returned |-> FALSE, assets |-> <<>>]

\* The type by the file extension first, the host only when no list has it.
resolveTypeByExtensionFirst(uri) ==
    IF extname(uri) \in image THEN "image"
    ELSE IF extname(uri) \in animation THEN "animation"
    ELSE IF extname(uri) \in video THEN "video"
    ELSE IF isYouTube(uri) THEN "youtube"
    ELSE "image"

\* Classification: the external-link host takes priority, then the
\* extension lists, and image is the default.
resolveType(uri) ==
    IF isYouTube(uri) THEN "youtube"
    ELSE IF extname(uri) \in image THEN "image"
    ELSE IF extname(uri) \in animation THEN "animation"
    ELSE IF extname(uri) \in video THEN "video"
    ELSE "image"

\* The captured assets of the pieces from offset index on, in document
\* order.
RECURSIVE capture(_, _)
capture(content, index) ==
    IF index >= Len(content) THEN <<>>
    ELSE LET piece == content[index + 1]
         IN  (IF piece.match
              THEN << [Captured(resolveType(piece.uri), piece.uri)
                         EXCEPT !.syntax.alt = piece.title, !.syntax.index = index] >>
              ELSE <<>>)
                 \o capture(content, index + 1)

\* capture(content) is called and returns.
Capture ==
    /\ ~captured.returned
    /\ UNCHANGED notCapture
    /\ captured' = [returned |-> TRUE, assets |-> capture(captureArgs, 0)]
    /\ UNCHANGED captureArgs

CaptureNext == Capture

\* ----------------------------------------------------------------- rewrite
\* A document is the sequence of its characters; offsets count from 0, as
\* those of a match of the capture pattern do.
Letters == {"a", "b"}
Documents == SeqsUpTo(Letters, MaxLen)

\* The markup Build may leave in asset.html: shorter than the shortest span,
\* as long as it, longer.
Markups == { <<>>, <<"<">>, <<"<", ">">> }

\* The captures of a document: half as many as it has characters, at most.
MaxSpans == MaxLen \div 2

\* The spans a capture may have in a document of len characters.
Spans(len) ==
    { span \in [index : 0..(len - 1), length : 1..len] :
        span.index + span.length <= len }

\* A built asset as far as rewrite() reads it: the span it was captured
\* from and its markup.
Built(span, html) == [syntax |-> span, html |-> html]

\* The end of a span: the offset of the first character after it.
EndOf(asset) == asset.syntax.index + asset.syntax.length

\* The batches Build may hand over for a document of len characters: the
\* captures in document order, no span overlapping another.
BuiltBatches(len) ==
    { assets \in SeqsUpTo({ Built(span, html) : span \in Spans(len), html \in Markups },
                          MaxSpans) :
        \A i \in 1..(Len(assets) - 1) :
            EndOf(assets[i]) <= assets[i + 1].syntax.index }

RewriteInputs ==
    UNION { { [content |-> content, assets |-> assets] :
                assets \in BuiltBatches(Len(content)) } : content \in Documents }

NoRewrite == [content |-> <<>>, assets |-> <<>>]

\* rewrite() has not been called yet.
RewriteIdle == rewritten = Null

\* content.substring(0, index) + html + content.substring(index + length)
Splice(content, asset) ==
    SubSeq(content, 1, asset.syntax.index)
        \o asset.html
        \o SubSeq(content, EndOf(asset) + 1, Len(content))

\* The spans replaced in document order, each at its offset in the original
\* document whatever the replacements before it did to the text.
RECURSIVE rewriteForward(_, _)
rewriteForward(content, assets) ==
    IF assets = <<>> THEN content
    ELSE rewriteForward(Splice(content, Head(assets)), Tail(assets))

\* The spans replaced strictly in reverse document order: the text before a
\* span is still the original when the span is replaced.
RECURSIVE rewrite(_, _)
rewrite(content, assets) ==
    IF assets = <<>> THEN content
    ELSE rewrite(Splice(content, assets[Len(assets)]),
                 SubSeq(assets, 1, Len(assets) - 1))

\* rewrite(content, assets) is called and returns.
Rewrite ==
    /\ rewritten = Null
    /\ UNCHANGED notRewrite
    /\ rewritten' = rewrite(rewriteArgs.content, rewriteArgs.assets)
    /\ UNCHANGED rewriteArgs

RewriteNext == Rewrite

\* ---------------------------------------------------------------- pipeline
\* One run of the pipeline on one document, as call b of each phase:
\* download() is given the captured assets, probe() what download() returned,
\* encode() what probe() returned.
PipelineProbe(b) ==
    /\ pc[b] = "done"
    /\ ProbeCall(b, downloaded[b])

PipelineEncode(b) ==
    /\ ppc[b] = "returned"
    /\ EncodeCall(b, ProbeResult(b))

PipelineNext ==
    \E b \in { c \in Batches : c = 1 } :
        \/ Download(b)
        \/ \E asset \in Assets : DownloadAsset(b, asset)
        \/ \E response \in Responses : Respond(b, response)
        \/ \E cause \in {"network", "abort"} : Fail(b, cause)
        \/ WaitDone(b)
        \/ WriteDone(b)
        \/ AllSettled(b)
        \/ PipelineProbe(b)
        \/ \E i \in 1..Len(calls[b]), error \in BOOLEAN, out \in ToolOutputs :
               HandleProbe(<<b, i>>, error, out)
        \/ \E i \in 1..Len(calls[b]) : Resume(b, i)
        \/ ProbeReturn(b)
        \/ PipelineEncode(b)

\* ---------------------------------------------------------- specifications
\* The Download phase.  The mirror directory may hold files of earlier
\* builds; Probe has not started.
DownloadInit ==
    /\ files \in SUBSET Paths
    /\ cacheSize = << >>
    /\ DownloadIdle
    /\ ProbeIdle
    /\ encodeArgs = DefaultEncodeArgs
    /\ EncodeIdle
    /\ disk = NoFile
    /\ saved = << >>
    /\ StoreIdle
    /\ YouTubeIdle
    /\ pluginPrefs = NoPrefs
    /\ plugins = [kind \in ChainKinds |-> <<"youtube">>]
    /\ ChainIdle
    /\ rewriteArgs = NoRewrite
    /\ RewriteIdle
    /\ captureArgs = <<>>
    /\ CaptureIdle
    /\ ConfigureIdle

DownloadSpec == DownloadInit /\ [][DownloadNext]_vars

\* What the event loop guarantees of the steps of download(): code that can
\* run does run, a timer that is set fires (the end of a wait, the abort of
\* an attempt whose timer is armed), a settled Promise.all resumes its
\* caller.  When, and whether, the network delivers a response, a body or an
\* error is not the program's to decide.
DownloadFairness ==
    \A b \in Batches :
        /\ WF_vars(\E asset \in Assets : DownloadAsset(b, asset))
        /\ WF_vars(WaitDone(b))
        /\ WF_vars(Fail(b, "abort"))
        /\ WF_vars(AllSettled(b))

DownloadLiveSpec == DownloadSpec /\ DownloadFairness

\* The Probe phase.  The file of every asset is on disk; the cache may hold
\* sizes that earlier documents of the build stored.
ProbeInit ==
    /\ files = Paths
    /\ cacheSize \in UNION { [K -> CachedSizes] : K \in SUBSET Paths }
    /\ DownloadIdle
    /\ ProbeIdle
    /\ encodeArgs = DefaultEncodeArgs
    /\ EncodeIdle
    /\ disk = NoFile
    /\ saved = << >>
    /\ StoreIdle
    /\ YouTubeIdle
    /\ pluginPrefs = NoPrefs
    /\ plugins = [kind \in ChainKinds |-> <<"youtube">>]
    /\ ChainIdle
    /\ rewriteArgs = NoRewrite
    /\ RewriteIdle
    /\ captureArgs = <<>>
    /\ CaptureIdle
    /\ ConfigureIdle

ProbeSpec == ProbeInit /\ [][ProbeNext]_vars

\* The Encode phase, under every setting of config.encode.
EncodeInit ==
    /\ files = Paths
    /\ cacheSize = << >>
    /\ DownloadIdle
    /\ ProbeIdle
    /\ encodeArgs \in EncodeOptions
    /\ EncodeIdle
    /\ disk = NoFile
    /\ saved = << >>
    /\ StoreIdle
    /\ YouTubeIdle
    /\ pluginPrefs = NoPrefs
    /\ plugins = [kind \in ChainKinds |-> <<"youtube">>]
    /\ ChainIdle
    /\ rewriteArgs = NoRewrite
    /\ RewriteIdle
    /\ captureArgs = <<>>
    /\ CaptureIdle
    /\ ConfigureIdle

EncodeSpec == EncodeInit /\ [][EncodeNext]_vars

\* One document through Download, Probe and Encode.  The mirror directory
\* and the cache may hold what earlier documents left.
PipelineInit ==
    /\ files \in SUBSET Paths
    /\ cacheSize \in UNION { [K -> CachedSizes] : K \in SUBSET Paths }
    /\ DownloadIdle
    /\ ProbeIdle
    /\ encodeArgs = DefaultEncodeArgs
    /\ EncodeIdle
    /\ disk = NoFile
    /\ saved = << >>
    /\ StoreIdle
    /\ YouTubeIdle
    /\ pluginPrefs = NoPrefs
    /\ plugins = [kind \in ChainKinds |-> <<"youtube">>]
    /\ ChainIdle
    /\ rewriteArgs = NoRewrite
    /\ RewriteIdle
    /\ captureArgs = <<>>
    /\ CaptureIdle
    /\ ConfigureIdle

PipelineSpec == PipelineInit /\ [][PipelineNext]_vars

\* The Cache Store over the builds of a site, from the first one on.
StoreInit ==
    /\ files = Paths
    /\ cacheSize = << >>
    /\ DownloadIdle
    /\ ProbeIdle
    /\ encodeArgs = DefaultEncodeArgs
    /\ EncodeIdle
    /\ disk = NoFile
    /\ saved = << >>
    /\ StoreIdle
    /\ YouTubeIdle
    /\ pluginPrefs = NoPrefs
    /\ plugins = [kind \in ChainKinds |-> <<"youtube">>]
    /\ ChainIdle
    /\ rewriteArgs = NoRewrite
    /\ RewriteIdle
    /\ captureArgs = <<>>
    /\ CaptureIdle
    /\ ConfigureIdle

StoreSpec == StoreInit /\ [][StoreNext]_vars

\* The resolver and the builder of the YouTube plugin, over overlapping
\* calls, under every setting of the plugin's preferences.
YouTubeInit ==
    /\ files = Paths
    /\ cacheSize = << >>
    /\ DownloadIdle
    /\ ProbeIdle
    /\ encodeArgs = DefaultEncodeArgs
    /\ EncodeIdle
    /\ disk = NoFile
    /\ saved = << >>
    /\ StoreIdle
    /\ YouTubeIdle
    /\ pluginPrefs \in Prefs
    /\ plugins = [kind \in ChainKinds |-> <<"youtube">>]
    /\ ChainIdle
    /\ rewriteArgs = NoRewrite
    /\ RewriteIdle
    /\ captureArgs = <<>>
    /\ CaptureIdle
    /\ ConfigureIdle

YouTubeSpec == YouTubeInit /\ [][YouTubeNext]_vars

\* The resolver chain and the builder chain, under every registration of up
\* to MaxPlugins handlers each.
ChainInit ==
    /\ files = Paths
    /\ cacheSize = << >>
    /\ DownloadIdle
    /\ ProbeIdle
    /\ encodeArgs = DefaultEncodeArgs
    /\ EncodeIdle
    /\ disk = NoFile
    /\ saved = << >>
    /\ StoreIdle
    /\ YouTubeIdle
    /\ pluginPrefs = NoPrefs
    /\ plugins \in [ChainKinds -> SeqsUpTo(Handlers, MaxPlugins)]
    /\ ChainIdle
    /\ rewriteArgs = NoRewrite
    /\ RewriteIdle
    /\ captureArgs = <<>>
    /\ CaptureIdle
    /\ ConfigureIdle

ChainSpec == ChainInit /\ [][ChainNext]_vars

\* Rewrite, for every document and every batch of built assets.
RewriteInit ==
    /\ files = Paths
    /\ cacheSize = << >>
    /\ DownloadIdle
    /\ ProbeIdle
    /\ encodeArgs = DefaultEncodeArgs
    /\ EncodeIdle
    /\ disk = NoFile
    /\ saved = << >>
    /\ StoreIdle
    /\ YouTubeIdle
    /\ pluginPrefs = NoPrefs
    /\ plugins = [kind \in ChainKinds |-> <<"youtube">>]
    /\ ChainIdle
    /\ rewriteArgs \in RewriteInputs
    /\ RewriteIdle
    /\ captureArgs = <<>>
    /\ CaptureIdle
    /\ ConfigureIdle

RewriteSpec == RewriteInit /\ [][RewriteNext]_vars

\* Capture, for every document of up to MaxLen pieces.
CaptureInit ==
    /\ files = Paths
    /\ cacheSize = << >>
    /\ DownloadIdle
    /\ ProbeIdle
    /\ encodeArgs = DefaultEncodeArgs
    /\ EncodeIdle
    /\ disk = NoFile
    /\ saved = << >>
    /\ StoreIdle
    /\ YouTubeIdle
    /\ pluginPrefs = NoPrefs
    /\ plugins = [kind \in ChainKinds |-> <<"youtube">>]
    /\ ChainIdle
    /\ rewriteArgs = NoRewrite
    /\ RewriteIdle
    /\ captureArgs \in CaptureDocuments
    /\ CaptureIdle
    /\ ConfigureIdle

CaptureSpec == CaptureInit /\ [][CaptureNext]_vars

\* The options of a process over its configure() calls.
ConfigureInit ==
    /\ files = Paths
    /\ cacheSize = << >>
    /\ DownloadIdle
    /\ ProbeIdle
    /\ encodeArgs = DefaultEncodeArgs
    /\ EncodeIdle
    /\ disk = NoFile
    /\ saved = << >>
    /\ StoreIdle
    /\ YouTubeIdle
    /\ pluginPrefs = NoPrefs
    /\ plugins = [kind \in ChainKinds |-> <<"youtube">>]
    /\ ChainIdle
    /\ rewriteArgs = NoRewrite
    /\ RewriteIdle
    /\ captureArgs = <<>>
    /\ CaptureIdle
    /\ ConfigureIdle

ConfigureSpec == ConfigureInit /\ [][ConfigureNext]_vars

\* ------------------------------------------------------------------ claims
\* The download() calls with a network fetch of path p in flight: the
\* request is out, or the body is being written.
FetchesInFlight(p) ==
    { b \in Batches : pc[b] \in {"fetching", "writing"} /\ cur[b].sourcePath = p }

\* C1: for every destination path, at every point of a run at most one
\* network fetch of it is in flight, however many assets of the same or of
\* overlapping download() calls reference it.
C1_AtMostOneFetchPerPath ==
    \A p \in Paths : Cardinality(FetchesInFlight(p)) <= 1

\* A fetch of p is in flight, p is not on disk yet, and another download()
\* call has been handed an asset of p and reused the fetch.
C1_Witness ==
    \E p \in Paths, b1, b2 \in Batches :
        /\ b1 # b2
        /\ b1 \in FetchesInFlight(p)
        /\ p \notin files
        /\ \E i \in 1..Len(downloaded[b2]) : downloaded[b2][i].sourcePath = p

\* The step in which an attempt of download() call b fails.
AttemptFails(b) ==
    /\ pc[b] \in {"fetching", "writing"}
    /\ failures'[cur[b].sourcePath] = failures[cur[b].sourcePath] + 1

\* C2: when an attempt fails and the retry counter of the path, incremented
\* for this failure, does not exceed the maximum, the download does not
\* fail: it waits a delay in [0, delay) to issue the request again.
C2_TransportFailureIsRetried ==
    [][\A b \in Batches :
          (AttemptFails(b) /\ retrying[cur[b].sourcePath] + 1 <= retries)
              => /\ pc'[b] = "waiting"
                 /\ waitFor'[b] \in 0..(delay - 1)
                 /\ retrying'[cur[b].sourcePath] = retrying[cur[b].sourcePath] + 1]_vars

\* download() call b ended with the failure of an attempt (not with a 429
\* that lacks its header, and not in Promise.all).
FailedOnAttempt(b) ==
    /\ pc[b] = "failed"
    /\ cur[b] # NoCur
    /\ lastResp[b].status # 429

\* C3: a download ends in the fatal error of a failed attempt exactly when
\* the attempts on its path have failed retries + 1 times, and then no file
\* is left at the path.
C3_FatalAfterRetriesLeavesNoFile ==
    \A b \in Batches :
        FailedOnAttempt(b)
            => /\ failures[cur[b].sourcePath] = retries + 1
               /\ cur[b].sourcePath \notin files

\* The step in which download() call b receives a response.
Receives(b) == pc[b] = "fetching" /\ lastResp'[b] # NoResponse

\* C4: a 429 response with a numeric Retry-After of n seconds leaves every
\* retry counter as it is and is followed by a wait of n + 1 seconds; the
\* wait is followed by one further attempt of the same request.
C4_RetryAfterIsHonoured ==
    [][\A b \in Batches :
          /\ (/\ Receives(b)
              /\ lastResp'[b].status = 429
              /\ ~isNaN(Number(lastResp'[b].retryAfter)))
                 => /\ retrying' = retrying
                    /\ pc'[b] = "waiting"
                    /\ waitFor'[b] = Number(lastResp'[b].retryAfter) + 1
          /\ (pc[b] = "waiting" /\ pc'[b] # "waiting")
                 => /\ pc'[b] = "fetching"
                    /\ cur'[b] = cur[b]
                    /\ retrying' = retrying]_vars

\* The second 429 in a row, with Retry-After: 5, has been received by the
\* only download() call under way: it waits 6 seconds, no counter has moved.
C4_Witness ==
    \E b \in Batches :
        /\ pc[b] = "waiting"
        /\ n429 = 2
        /\ lastResp[b] = [status |-> 429, retryAfter |-> <<"5">>]
        /\ waitFor[b] = 6
        /\ \A c \in Batches \ {b} : pc[c] = "idle"
        /\ \A p \in Paths : retrying[p] = 0

\* A header value that is a decimal numeral.
IsNumeral(h) ==
    /\ h # Null
    /\ h # <<>>
    /\ \A i \in 1..Len(h) : h[i] \in Digits

\* C5: a 429 response whose Retry-After header is missing or not numeric
\* makes the download fail at once, with no wait and no further attempt.
C5_Missing429HeaderIsFatal ==
    [][\A b \in Batches :
          (/\ Receives(b)
           /\ lastResp'[b].status = 429
           /\ ~IsNumeral(lastResp'[b].retryAfter))
              => pc'[b] = "failed"]_vars

\* C6: every fetch attempt in flight is bounded by the configured timeout:
\* its abort timer is armed.
C6_AttemptsAreTimed ==
    \A b \in Batches : pc[b] \in {"fetching", "writing"} => timer[b] = timeout

\* C7: the size cache holds only measured sizes: no entry is a NaN result
\* of a failed or unparsable probe.
C7_CacheHoldsOnlyMeasuredSizes ==
    \A p \in DOMAIN cacheSize :
        ~isNaN(cacheSize[p].width) /\ ~isNaN(cacheSize[p].height)

\* C8: for every source path at most one ffprobe process is started in a
\* run, however many probeAsset calls of the path overlap.
C8_AtMostOneInvocationPerPath ==
    \A p \in Paths : invocations[p] <= 1

\* The probeAsset calls that wait for the size of path p.
Awaiting(p) ==
    { id \in ProbeIds :
        /\ id[2] <= Len(calls[id[1]])
        /\ calls[id[1]][id[2]].state = "awaiting"
        /\ calls[id[1]][id[2]].asset.sourcePath = p }

\* Two probeAsset calls of different probe() calls wait for the one process
\* started for their path.
C8_Witness ==
    \E p \in Paths :
        /\ invocations[p] = 1
        /\ \E i, j \in Awaiting(p) : i[1] # j[1]

\* C9: a probeAsset call for a source path that has an entry in the size
\* cache starts no ffprobe process and returns the cached size.
C9_CacheHitStartsNoTool ==
    [][\A b \in Batches :
          (ppc[b] = "idle" /\ ppc'[b] = "running")
              => \A i \in 1..Len(calls'[b]) :
                     LET call == calls'[b][i]
                     IN  (call.asset.type # "youtube" /\ call.asset.sourcePath \in DOMAIN cacheSize)
                             => /\ call.state = "done"
                                /\ call.size = cacheSize[call.asset.sourcePath]
                                /\ invocations'[call.asset.sourcePath] =
                                       invocations[call.asset.sourcePath]]_vars

\* A probe() call has returned the cached size of a path for which no
\* process was ever started.
C9_Witness ==
    \E b \in Batches :
        /\ ppc[b] = "returned"
        /\ \E i \in 1..Len(calls[b]) :
               /\ calls[b][i].asset.sourcePath \in DOMAIN cacheSize
               /\ invocations[calls[b][i].asset.sourcePath] = 0
               /\ calls[b][i].size \in CachedSizes

\* An output of the form <width>x<height>: two decimal numerals around one
\* "x", with or without the line break that ends the line.
WellFormed(out) ==
    LET t == TrimEnd(out)
    IN  \E i \in 2..(Len(t) - 1) :
            /\ t[i] = "x"
            /\ \A j \in (1..Len(t)) \ {i} : t[j] \in Digits

\* C10: a probe whose tool failed, or whose output is not of the form
\* <width>x<height>, yields the NaN sentinel for both width and height.
C10_FailedProbeYieldsNaN ==
    (lastExec.id # NoPromise /\ (lastExec.error \/ ~WellFormed(lastExec.out)))
        => probePromise[lastExec.id].size = NaNSize

\* The asset handed to the downloadAsset call that download() call b made in
\* this step: the one of the fetch it started, or the one it pushed.
Handed(b) ==
    IF pc'[b] = "fetching" THEN cur'[b].asset
    ELSE LET o == downloaded'[b][Len(downloaded'[b])]
         IN  [k \in DOMAIN o \ {"sourcePath"} |-> o[k]]

\* C12: a downloadAsset call for an asset that is no External-Link and whose
\* destination file is on disk starts no fetch, leaves the registry of
\* fetches as it is and returns the asset with that destination as its
\* sourcePath.
C12_OnDiskIsReused ==
    [][\A b \in Batches :
          (/\ pc[b] = "loop"
           /\ pc'[b] # "loop" \/ downloaded'[b] # downloaded[b]
           /\ Handed(b).type # "youtube"
           /\ SourcePathOf(Handed(b)) \in files)
              => /\ pc'[b] # "fetching"
                 /\ fetching' = fetching
                 /\ promise' = promise
                 /\ files' = files
                 /\ Len(downloaded'[b]) = Len(downloaded[b]) + 1
                 /\ SubSeq(downloaded'[b], 1, Len(downloaded[b])) = downloaded[b]
                 /\ Handed(b) \in Assets
                 /\ downloaded'[b][Len(downloaded'[b])].sourcePath =
                        SourcePathOf(Handed(b))]_vars

\* A download() call has returned an asset whose file was on disk and of
\* which no fetch was ever registered.
C12_Witness ==
    \E b \in Batches :
        /\ pc[b] = "done"
        /\ \E i \in 1..Len(downloaded[b]) :
               /\ downloaded[b][i].type # "youtube"
               /\ downloaded[b][i].sourcePath \in files
               /\ fetching[downloaded[b][i].sourcePath] = NoPromise

\* C13: while the fetch, the backoff wait or the 429 wait of one asset of a
\* download() call is in progress and the call has assets left, the
\* downloadAsset call of its next asset can start.
C13_BatchIsDispatchedConcurrently ==
    \A b \in Batches :
        (/\ pc[b] \in {"fetching", "waiting", "writing"}
         /\ Len(downloaded[b]) + 1 < todo[b])
            => ENABLED (\E asset \in Assets : DownloadAsset(b, asset))

\* The download() calls that work on a fetch of path p: the request is out,
\* the body is being written, or a wait precedes the next attempt.
FetchesUnderWay(p) ==
    { b \in Batches : pc[b] \in {"fetching", "writing", "waiting"} /\ cur[b].sourcePath = p }

\* C14: when download() has returned its output, no fetch of the path of
\* any asset of that output is under way, whichever call started it: every
\* fetch registered for such a path is fulfilled.
C14_ReturnsAfterFetchesComplete ==
    \A b \in Batches :
        pc[b] = "done"
            => \A i \in 1..Len(downloaded[b]) :
                   LET p == downloaded[b][i].sourcePath
                   IN  p # EmptyPath
                          => /\ FetchesUnderWay(p) = {}
                             /\ p \in files
                             /\ fetching[p] # NoPromise => promise[fetching[p]] = "fulfilled"

\* A download() call has returned an asset whose file another call fetched:
\* it took the asset while the other call's fetch was in flight or done.
C14_Witness ==
    \E b \in Batches :
        /\ pc[b] = "done"
        /\ \E i \in 1..Len(downloaded[b]) :
               LET p == downloaded[b][i].sourcePath
               IN  /\ p # EmptyPath
                   /\ fetching[p] # NoPromise
                   /\ fetching[p][1] # b

\* C11: an External-Link asset starts no fetch in Download (no downloadAsset
\* call that fetches, and so registers a fetch, is one for such an asset)
\* and no ffprobe process in Probe, its empty sourcePath has no entry in
\* the registry of probes nor in the size cache, and Download gives it the
\* empty sourcePath, Probe the size 0x0.
C11_ExternalLinkIsShortCircuited ==
    /\ \A b \in Batches :
          /\ cur[b].asset.type # "youtube"
          /\ \A i \in 1..Len(downloaded[b]) :
                 downloaded[b][i].type = "youtube"
                     => downloaded[b][i].sourcePath = EmptyPath
          /\ \A i \in 1..Len(calls[b]) :
                 calls[b][i].asset.type = "youtube"
                     => /\ ~calls[b][i].owner
                        /\ calls[b][i].state = "done"
                        /\ calls[b][i].size = ZeroSize
          /\ ppc[b] = "returned"
                 => \A i \in 1..Len(calls[b]) :
                        ProbeResult(b)[i].type = "youtube"
                            => /\ ProbeResult(b)[i].sourcePath = EmptyPath
                               /\ ProbeResult(b)[i].size = ZeroSize
    /\ EmptyPath \notin DOMAIN probing
    /\ EmptyPath \notin DOMAIN cacheSize

\* A document with an External-Link asset and an asset whose file was probed
\* by the tool is through Probe.
C11_Witness ==
    \E b \in Batches :
        /\ ppc[b] = "returned"
        /\ \E i, j \in 1..Len(calls[b]) :
               /\ calls[b][i].asset.type = "youtube"
               /\ calls[b][j].asset.type # "youtube"
               /\ invocations[calls[b][j].asset.sourcePath] = 1

\* Every field of the input asset is a field of the output asset, with the
\* same value.
Carries(output, input) ==
    /\ DOMAIN input \subseteq DOMAIN output
    /\ \A k \in DOMAIN input : output[k] = input[k]

\* The same holds of two batches, asset by asset.
CarriesAll(outputs, inputs) ==
    /\ Len(outputs) = Len(inputs)
    /\ \A i \in 1..Len(inputs) : Carries(outputs[i], inputs[i])

\* C16: the assets Download, Probe and Encode put out carry every field of
\* the asset they were given (syntax, type, source URL, sourcePath, size)
\* with its value, and the batch a phase was given stays as it was given.
C16_AssetsAreAppendOnly ==
    [][\A b \in Batches :
          /\ (pc[b] = "loop" /\ downloaded'[b] # downloaded[b])
                 => /\ Handed(b) \in Assets
                    /\ Carries(downloaded'[b][Len(downloaded'[b])], Handed(b))
          /\ (pc[b] = "writing" /\ downloaded'[b] # downloaded[b])
                 => Carries(downloaded'[b][Len(downloaded'[b])], cur[b].asset)
          /\ pc[b] = "done" => downloaded'[b] = downloaded[b]
          /\ ppc'[b] = "returned"
                 => /\ CarriesAll(ProbeResult(b)', downloaded[b])
                    /\ downloaded'[b] = downloaded[b]
          /\ encoded'[b].state = "done"
                 => /\ CarriesAll(encoded'[b].assets, ProbeResult(b))
                    /\ ProbeResult(b)' = ProbeResult(b)]_vars

\* A document is through Encode with an asset that was fetched and probed
\* by the tool: it has its syntax, its sourcePath and its size.
C16_Witness ==
    \E b \in Batches :
        /\ encoded[b].state = "done"
        /\ \E i \in 1..Len(encoded[b].assets) :
               LET a == encoded[b].assets[i]
               IN  /\ a.syntax.index = 7
                   /\ a.sourcePath # EmptyPath
                   /\ fetching[a.sourcePath] # NoPromise
                   /\ invocations[a.sourcePath] = 1
                   /\ a.size = cacheSize[a.sourcePath]

\* The name of a source file without its extension.
BaseName(file) ==
    CASE file = "a.png" -> "a" [] file = "b.png" -> "b" [] file = "c.gif" -> "c"

\* C17: for an asset of kind image, animation or video whose kind has its
\* ffmpeg arguments, Encode gives a non-empty encodedPath: the directory of
\* the source, and a file name made of the base name of the source, the
\* configured suffix and an extension.
C17_EnabledKindIsEncoded ==
    \A b \in Batches :
        encoded[b].state = "done"
            => \A i \in 1..Len(encoded[b].assets) :
                   LET a == encoded[b].assets[i]
                   IN  (a.type \in EncodeKinds /\ encodeArgs[a.type] # Null)
                           => /\ a.encodedPath # EmptyPath
                              /\ SubSeq(a.encodedPath, 1, Len(a.encodedPath) - 1) =
                                     SubSeq(a.sourcePath, 1, Len(a.sourcePath) - 1)
                              /\ a.encodedPath[Len(a.encodedPath)][1] =
                                     BaseName(a.sourcePath[Len(a.sourcePath)])
                              /\ a.encodedPath[Len(a.encodedPath)][2] = suffix

\* C18: for an asset whose kind has null for its ffmpeg arguments, Encode
\* gives the empty encodedPath and the sourcePath the asset came with.
C18_DisabledKindIsPassedThrough ==
    \A b \in Batches :
        encoded[b].state = "done"
            => /\ Len(encoded[b].assets) = Len(encoded[b].given)
               /\ \A i \in 1..Len(encoded[b].assets) :
                      LET a == encoded[b].assets[i]
                      IN  (a.type \in EncodeKinds /\ encodeArgs[a.type] = Null)
                              => /\ a.encodedPath = EmptyPath
                                 /\ a.sourcePath = encoded[b].given[i].sourcePath

\* encode() has returned an image while images are not encoded, and videos
\* are.
C18_Witness ==
    \E b \in Batches :
        /\ encoded[b].state = "done"
        /\ encodeArgs["image"] = Null
        /\ encodeArgs["video"] # Null
        /\ \E i \in 1..Len(encoded[b].assets) :
               /\ encoded[b].assets[i].type = "image"
               /\ encoded[b].assets[i].sourcePath # EmptyPath

\* C15: when load() runs in a later build and finds the file save() wrote,
\* the size category holds the mapping that was saved, and the lookup of
\* every saved key hits.
C15_CacheRoundTrip ==
    [][(~loaded /\ loaded' /\ disk.exists)
          => /\ cacheSize' = saved
             /\ \A sourcePath \in DOMAIN saved : CacheHas(sourcePath)']_vars

\* The step in which resolver call r receives the response to a request.
ThumbnailReceived(r) ==
    /\ resolves[r].state = "fetching"
    /\ resolves'[r].response # resolves[r].response \/ resolves'[r].state = "done"
    /\ resolves'[r].state # "failed"

C20_ChainIsFirstMatchWins ==
    \A kind \in ChainKinds :
        LET called == chain[kind].called
        IN  /\ Len(called) <= Len(plugins[kind])
            /\ \A i \in 1..Len(called) :
                   /\ called[i].index = i
                   /\ i < Len(called) => ~called[i].handled
            /\ chain[kind].default
                   <=> /\ chain[kind].state = "done"
                       /\ \A i \in 1..Len(called) : ~called[i].handled
            /\ chain[kind].state = "done"
                   => \/ \E i \in 1..Len(called) : called[i].handled
                      \/ Len(called) = Len(plugins[kind])

\* The resolver chain stopped at its first handler, with a second one
\* registered; the builder chain went through two handlers to the default.
C20_Witness ==
    /\ Len(plugins["resolvers"]) = 2
    /\ chain["resolvers"].state = "done"
    /\ Len(chain["resolvers"].called) = 1
    /\ chain["resolvers"].handled
    /\ ~chain["resolvers"].default
    /\ Len(plugins["builders"]) = 2
    /\ chain["builders"].state = "done"
    /\ Len(chain["builders"].called) = 2
    /\ chain["builders"].default

\* The step in which handler call r of the plugin is made.
HandlerCalled(r) ==
    /\ resolves[r].state = "idle"
    /\ resolves'[r].state # "idle"

\* C21: a resolver or a builder of the plugin that is given an asset that is
\* no watch link returns without failing and reports not handled, leaves the
\* asset's content and html as they were, requests no thumbnail and leaves
\* cache.youtube as it was; and nothing of this changes after the call.
C21_UnmatchedAssetIsLeftAlone ==
    [][\A r \in Batches :
          /\ (HandlerCalled(r) /\ resolves'[r].url \notin WatchUrls)
                => /\ resolves'[r].state \in {"done", "built"}
                   /\ youtubeCache' = youtubeCache
          /\ (resolves'[r].state # "idle" /\ resolves'[r].url \notin WatchUrls)
                => /\ ~resolves'[r].handled
                   /\ resolves'[r].src = Null
                   /\ resolves'[r].html = Null
                   /\ resolves'[r].tried = <<>>
                   /\ resolves'[r].response = NoThumbnail
                   /\ ~resolves'[r].warned]_vars

\* A resolver call and a builder call have each been given an image and have
\* returned, while the plugin handles a watch link in neither.
C21_Witness ==
    \E r1, r2 \in Batches :
        /\ resolves[r1].state = "done"
        /\ resolves[r1].url = <<"/assets", "a.png">>
        /\ ~resolves[r1].handled
        /\ resolves[r2].state = "built"
        /\ resolves[r2].url = <<"https://h1", "b.png">>
        /\ ~resolves[r2].handled

\* The original text with each span replaced by its markup, put together in
\* one pass from the pieces of the original: the text from offset `from` to
\* the next span, that span's markup, and so on to the end.
RECURSIVE Replaced(_, _, _)
Replaced(content, assets, from) ==
    IF assets = <<>> THEN SubSeq(content, from + 1, Len(content))
    ELSE SubSeq(content, from + 1, Head(assets).syntax.index)
             \o Head(assets).html
             \o Replaced(content, Tail(assets), EndOf(Head(assets)))

\* C22: Rewrite returns the original text with each captured span replaced
\* by that asset's markup at its capture-time offsets, whatever the lengths
\* of the replacements: the text outside the spans is the original's, piece
\* by piece and in the original order.
C22_RewriteReplacesSpansOnly ==
    rewritten # Null
        => rewritten = Replaced(rewriteArgs.content, rewriteArgs.assets, 0)

\* A document with two captures has been rewritten; the first markup is
\* longer than its span, and text before, between and after the spans is
\* left.
C22_Witness ==
    /\ rewritten # Null
    /\ rewriteArgs.content = <<"a", "b", "a", "b">>
    /\ Len(rewriteArgs.assets) = 2
    /\ rewriteArgs.assets[1] = Built([index |-> 1, length |-> 1], <<"<", ">">>)
    /\ rewriteArgs.assets[2].syntax = [index |-> 3, length |-> 1]
    /\ rewritten = <<"a", "<", ">", "a">> \o rewriteArgs.assets[2].html

\* The offsets of the matches of a document, in document order.
MatchOffsets(content) == { i \in 0..(Len(content) - 1) : content[i + 1].match }

\* C23: Capture returns one asset for every match, in document order and
\* with the match's offset, and gives it exactly one type: youtube for a
\* watch link even when its extension is in a list, else the kind whose
\* list has the extension, else image.
C23_EveryReferenceIsClassified ==
    captured.returned
        => /\ Len(captured.assets) = Cardinality(MatchOffsets(captureArgs))
           /\ \A k \in 1..Len(captured.assets) :
                  LET asset == captured.assets[k]
                      uri == asset.sourceUrl
                  IN  /\ asset.syntax.index \in MatchOffsets(captureArgs)
                      /\ captureArgs[asset.syntax.index + 1].uri = uri
                      /\ k > 1 => captured.assets[k - 1].syntax.index < asset.syntax.index
                      /\ asset.type \in AssetTypes
                      /\ uri \in WatchUrls => asset.type = "youtube"
                      /\ uri \notin WatchUrls =>
                             /\ extname(uri) \in image => asset.type = "image"
                             /\ extname(uri) \in animation => asset.type = "animation"
                             /\ extname(uri) \in video => asset.type = "video"
                             /\ extname(uri) \notin image \cup animation \cup video
                                    => asset.type = "image"

\* A document with a watch link that ends in .mp4, a reference with an
\* extension no list has and a video has been captured.
C23_Witness ==
    /\ captured.returned
    /\ Len(captured.assets) = 3
    /\ captured.assets[1].sourceUrl = <<"https://www.youtube.com", "watch?v=xyz&f=.mp4">>
    /\ captured.assets[1].type = "youtube"
    /\ captured.assets[2].sourceUrl = <<"https://h1", "e.webp">>
    /\ captured.assets[2].type = "image"
    /\ captured.assets[3].sourceUrl = <<"https://h2", "d.mp4">>
    /\ captured.assets[3].type = "video"
    /\ captured.assets[3].syntax.index = 3

\* The options the settings specify: those they have a value for.
Specified(given) ==
    { prop \in DOMAIN given \cap DOMAIN Defaults : given[prop] # Undefined }

\* C24: after configure(settings) on the options of a fresh process, every
\* option the settings do not specify has its default value, and so has
\* every sub-option that a specified group does not specify: with only
\* fetch.retries given, fetch.timeout is 30 and fetch.delay is 6.
C24_UnspecifiedOptionsKeepDefaults ==
    [][options = Defaults
          => \A prop \in DOMAIN Defaults :
                 IF prop \notin Specified(settings')
                 THEN options'[prop] = Defaults[prop]
                 ELSE settings'[prop].type = "object"
                          => \A sub \in DOMAIN Defaults[prop].props
                                        \ DOMAIN settings'[prop].props :
                                 /\ sub \in DOMAIN options'[prop].props
                                 /\ options'[prop].props[sub] = Defaults[prop].props[sub]]_vars

\* C25: no step decreases or resets the retry counter of any path, be it a
\* successful download, a 429 retry, a fatal failure or the start of a
\* later batch; and a transport failure on one path leaves the counter of
\* every other path as it was.
C25_RetryCounterOnlyGrows ==
    [][\A p \in Paths :
          /\ retrying'[p] >= retrying[p]
          /\ failures'[p] # failures[p]
                => \A q \in Paths \ {p} : retrying'[q] = retrying[q]]_vars

\* A download has succeeded after a 429 retry, a later download() call has
\* started, and an attempt on another path has failed for good.
C25_Witness ==
    \E p, q \in Paths :
        /\ p # q
        /\ fetching[p] # NoPromise
        /\ promise[fetching[p]] = "fulfilled"
        /\ n429 > 0
        /\ pc[2] = "failed"
        /\ failures[q] > 0
        /\ promise[fetching[q]] = "rejected"

\* The step in which resolveYouTubeAsset is called as call r, for a watch
\* link.
ResolverCalled(r) ==
    /\ HandlerCalled(r)
    /\ resolves'[r].url \in WatchUrls
    /\ resolves'[r].state \in {"done", "fetching", "failed"}

\* C26: cache.youtube changes only in a step in which a resolver call
\* receives a successful response, and then by the entry of that call's id
\* with the URL of that response: never when the last variant failed, too.
\* A resolver call for an id that cache.youtube has returns the cached URL
\* at once, with no request made.
C26_ThumbnailCacheOnlyOnSuccess ==
    [][/\ youtubeCache' # youtubeCache
          => \E r \in Batches :
                 /\ ThumbnailReceived(r)
                 /\ resolves'[r].response.ok
                 /\ ~resolves'[r].warned
                 /\ youtubeCache' = Put(youtubeCache, getYouTubeId(resolves[r].url),
                                        resolves'[r].response.url)
       /\ \A r \in Batches :
              /\ (ThumbnailReceived(r) /\ ~resolves'[r].response.ok)
                    => youtubeCache' = youtubeCache
              /\ (ResolverCalled(r)
                     /\ getYouTubeId(resolves'[r].url) \in DOMAIN youtubeCache)
                    => /\ resolves'[r].state = "done"
                       /\ resolves'[r].tried = <<>>
                       /\ resolves'[r].src = youtubeCache[getYouTubeId(resolves'[r].url)]
                       /\ resolves'[r].handled
                       /\ youtubeCache' = youtubeCache]_vars

\* One resolver call has stored the URL of a successful response under its
\* id, and another call for the same link has returned that URL without a
\* request.
C26_Witness ==
    \E r1, r2 \in Batches :
        /\ resolves[r1].state = "done"
        /\ resolves[r1].tried # <<>>
        /\ resolves[r1].response.ok
        /\ resolves[r2].state = "done"
        /\ resolves[r2].url = resolves[r1].url
        /\ resolves[r2].tried = <<>>
        /\ resolves[r2].handled
        /\ resolves[r2].src = resolves[r1].response.url
        /\ youtubeCache = Put(<< >>, getYouTubeId(resolves[r1].url), resolves[r1].response.url)

\* The asset an output asset was made from: the output without the field
\* the phase added.
Without(output, key) == [k \in DOMAIN output \ {key} |-> output[k]]

\* C27: download() returns as many assets as it was given, one pushed per
\* iteration of its loop; probe() and encode() return as many assets as they
\* were given, the i-th made from the i-th given, in whatever order the
\* fetches and the tool runs complete and whether or not a file, a fetch in
\* flight or a cache entry is reused.
C27_OneOutputPerInputInOrder ==
    \A b \in Batches :
        /\ Len(downloaded[b]) <= todo[b]
        /\ pc[b] = "done" => Len(downloaded[b]) = todo[b]
        /\ ppc[b] # "idle"
              => /\ Len(calls[b]) = Len(downloaded[b])
                 /\ \A i \in 1..Len(calls[b]) : calls[b][i].asset = downloaded[b][i]
        /\ ppc[b] = "returned"
              => /\ Len(ProbeResult(b)) = Len(downloaded[b])
                 /\ \A i \in 1..Len(downloaded[b]) :
                        Without(ProbeResult(b)[i], "size") = downloaded[b][i]
        /\ encoded[b].state = "done"
              => /\ Len(encoded[b].assets) = Len(downloaded[b])
                 /\ \A i \in 1..Len(downloaded[b]) :
                        Without(Without(encoded[b].assets[i], "encodedPath"), "size")
                            = downloaded[b][i]

\* A document with two different assets is through Encode; the file of the
\* first was on disk and its size in the cache, the second was fetched and
\* probed by the tool.
C27_Witness ==
    /\ encoded[1].state = "done"
    /\ Len(encoded[1].assets) = 2
    /\ encoded[1].assets[1].sourceUrl # encoded[1].assets[2].sourceUrl
    /\ encoded[1].assets[1].type = "image"
    /\ fetching[encoded[1].assets[1].sourcePath] = NoPromise
    /\ ~calls[1][1].owner
    /\ encoded[1].assets[2].type = "video"
    /\ fetching[encoded[1].assets[2].sourcePath] # NoPromise
    /\ calls[1][2].owner

\* The fetch registered for path p has failed for good: its promise is
\* rejected.
FailedFatally(p) ==
    /\ fetching[p] # NoPromise
    /\ promise[fetching[p]] = "rejected"

\* C28: an entry of the registry of fetches is never removed or replaced;
\* a fetch that has failed for good stays failed and its path is never
\* fetched again; every download() call that reaches Promise.all takes every
\* registered fetch, the failed ones included, and a call returns only from
\* a Promise.all without a failed fetch: so no call made after the failure
\* returns, whatever assets it is given.
C28_FatalFailureFailsLaterCalls ==
    [][/\ \A p \in Paths :
              /\ fetching[p] # NoPromise => fetching'[p] = fetching[p]
              /\ FailedFatally(p) => FailedFatally(p)' /\ FetchesInFlight(p)' = {}
       /\ \A b \in Batches :
              /\ (pc[b] # "joining" /\ pc'[b] = "joining")
                    => \A p \in Paths : FailedFatally(p) => fetching[p] \in joinSet'[b]
              /\ (pc[b] # "done" /\ pc'[b] = "done")
                    => /\ pc[b] = "joining"
                       /\ \A p \in Paths : FailedFatally(p) => fetching[p] \notin joinSet[b]
              /\ (pc[b] = "joining" /\ \E p \in Paths :
                                          FailedFatally(p) /\ fetching[p] \in joinSet[b])
                    => pc'[b] \in {"joining", "failed"} /\ joinSet'[b] = joinSet[b]]_vars

\* The fetch of one path has failed for good in the first download() call;
\* the second call was given an asset of another path, has its downloaded
\* asset, and has failed all the same.
C28_Witness ==
    \E p \in Paths :
        /\ FailedFatally(p)
        /\ fetching[p] = <<1, 1>>
        /\ pc[2] = "failed"
        /\ Len(downloaded[2]) = 1
        /\ downloaded[2][1].sourcePath \notin {p, EmptyPath}

\* download() call b has a downloadAsset call in progress: a request is out,
\* a body is being written, or a wait is on.
InProgress(b) == pc[b] \in {"fetching", "writing", "waiting"}

\* C29: as long as no response is a 429, no path sees more than retries + 1
\* failed attempts, and every downloadAsset call in progress comes to an end,
\* with the downloaded asset or with a rejection: nothing but 429 responses
\* keeps a download running.
C29_DownloadTerminatesWithout429 ==
    /\ [](n429 = 0 => \A p \in Paths : failures[p] <= retries + 1)
    /\ \A b \in Batches :
           (InProgress(b) /\ n429 = 0) ~> (~InProgress(b) \/ n429 > 0)

\* C30: a configure() call sets each option that the settings name with a
\* value other than undefined to that value, null included, and leaves every
\* other option as it was; a key that is no option adds nothing; the
\* defaults object is never changed.
C30_ConfigureChangesGivenOptionsOnly ==
    [][/\ DOMAIN options' = DOMAIN Defaults
       /\ \A prop \in DOMAIN Defaults :
              options'[prop] = IF prop \in DOMAIN settings' /\ settings'[prop] # Undefined
                               THEN settings'[prop]
                               ELSE options[prop]
       /\ defaults' = Defaults]_vars

\* After an earlier call that disabled the posters, configure() has been
\* called with log: null, poster: undefined and a key that is no option:
\* logging is disabled, the posters still are, the suffix has its default.
C30_Witness ==
    /\ settings = [log |-> NullValue, poster |-> Undefined, other |-> Str("x")]
    /\ options.log = NullValue
    /\ options.poster = NullValue
    /\ options.suffix = Defaults.suffix
    /\ defaults = Defaults

====
